---- MODULE Spec2Model ----
(***************************************************************************)
(* GameOverlayService (services/game-overlay): the overlay window          *)
(* lifecycle and its hand-off to the native overlay compositor.            *)
(*                                                                         *)
(* One createOverlay() call is one "session", numbered 1..MaxSessions in   *)
(* call order.  A window is the pair <<session, key>>; the BrowserViews of *)
(* a session and the rxjs subscription made by its createOverlay() carry   *)
(* the same session number.  All handlers run on one thread, so every      *)
(* handler is one atomic action; createOverlay() is split at its await.    *)
(***************************************************************************)
EXTENDS Integers, Sequences, FiniteSets, TLC

\* ---------------------------------------------------------------- bounds
MaxSessions == 2          \* createOverlay() calls in one process run
MaxCommandSessions == 1   \* the same, in the runs of SpecCommands
MaxCalls == 2             \* overlay.show() / overlay.hide() calls that are counted
MaxNul == 2               \* terminator characters appended to a status string
MaxDomReady == 3          \* dom-ready events of one control panel
WorkAreaUnit == 160       \* half of the step between two work-area sizes
MaxWidthUnits == 6        \* work-area widths: 2 * WorkAreaUnit * (1..MaxWidthUnits)
MaxHeightUnits == 4       \* work-area heights: 2 * WorkAreaUnit * (1..MaxHeightUnits)

\* ------------------------------------------------------ program constants
TakeCount == 3        \* take(3)
DelaySeconds == 5     \* delay(5000), in seconds
DomReadyCount == 2    \* take(2) on the control panel's dom-ready
Opaque == 255         \* setTransparency(overlayId, 255)
OFFSCREEN_OFFSET == 5000

Sessions == 1..MaxSessions

RE == "recentEvents"
CHAT == "chat"
CP == "overlayControls"
CONTAINER == "overlayWindow"
Keys == {RE, CHAT, CP}

NUL == "NUL"
SPACE == " "

VARIABLES
  isEnabled,        \* state.isEnabled
  isShowing,        \* state.isShowing
  isPreviewEnabled, \* state.isPreviewEnabled
  inited,           \* init() has run
  exited,           \* the process received shutdownComplete and exited
  loggedIn,         \* userService.isLoggedIn()
  subscribed,       \* userLogin / userLogout / shutdownComplete handlers exist
  workArea,         \* windowsService.getCurrentDisplay().workArea
  nSess,            \* number of createOverlay() calls so far
  pc,               \* per session: position of createOverlay()
  sub,              \* per session: state of the subscription it made
  count,            \* per session: the signals its take(3) has taken
  stray,            \* per session: it took a signal of another session's surface
  elapsed,          \* per session: seconds since take(3) completed
  curSub,           \* this.onWindowsReadySubscription (0: undefined)
  windows,          \* this.windows: key -> session of the window (0: no key)
  windowsKeys,      \* the keys of this.windows in insertion order
  overlayWindow,    \* this.overlayWindow (0: undefined)
  live,             \* the windows that exist (created and not destroyed)
  reLoad,           \* per session: recent-events view load
  chatLoad,         \* per session: chat view load
  domCount,         \* per session: dom-ready events of its control panel
  reloads,          \* per session: reload() calls its control panel received
  started,          \* the compositor thread runs (overlay.start / overlay.stop)
  regs,             \* live compositor registrations, in addHWND order
  teardownLog,      \* the steps the last destroyOverlay() call took, in order
  visible,          \* last of overlay.show() / overlay.hide()
  nCalls,           \* number of overlay.show() / overlay.hide() calls
  op                \* the last command of the user interface, with its inputs

stateVars == <<isEnabled, isShowing, isPreviewEnabled>>
envVars == <<inited, exited, loggedIn, subscribed, workArea>>
aggVars == <<sub, count, stray, elapsed, curSub>>
winVars == <<windows, windowsKeys, overlayWindow, live>>
loadVars == <<reLoad, chatLoad, domCount, reloads>>
sessVars == <<nSess, pc, aggVars, winVars, loadVars>>
compVars == <<started, regs, teardownLog>>
showVars == <<visible, nCalls>>
vars == <<stateVars, envVars, sessVars, compVars, showVars, op>>

\* ------------------------------------------------------------- helpers
Range(s) == {s[i] : i \in 1..Len(s)}

\* this.windows[k] = ... : a new key goes to the end of the insertion order
InsertKey(keys, k) == IF k \in Range(keys) THEN keys ELSE Append(keys, k)

\* Object.values(this.windows): the windows in key insertion order
WindowValues == [i \in 1..Len(windowsKeys) |-> <<windows[windowsKeys[i]], windowsKeys[i]>>]

\* ------------------------------------------------- compositor status text
OverlayThreadStatusRunning == <<"running">>   \* OverlayThreadStatus.Running
StatusStarting == <<"starting">>
StatusStopped == <<"stopped">>

RECURSIVE Nuls(_)
Nuls(n) == IF n = 0 THEN <<>> ELSE <<NUL>> \o Nuls(n - 1)

\* overlay.getStatus(): the thread's status word followed by transport noise
GetStatusValues ==
  {w \o Nuls(n) : w \in (IF started THEN {OverlayThreadStatusRunning, StatusStarting}
                                    ELSE {StatusStopped}),
                  n \in 0..MaxNul}

\* a replace with a global pattern: removes every occurrence
ReplaceEvery(str, ch) == SelectSeq(str, LAMBDA c : c # ch)

\* String.prototype.replace(ch, ''): removes the first occurrence only
RECURSIVE ReplaceFirst(_, _)
ReplaceFirst(str, ch) ==
  IF str = <<>> THEN <<>>
  ELSE IF Head(str) = ch THEN Tail(str)
  ELSE <<Head(str)>> \o ReplaceFirst(Tail(str), ch)

\* String.prototype.trim()
RECURSIVE TrimLeft(_)
TrimLeft(str) ==
  IF str # <<>> /\ Head(str) = SPACE THEN TrimLeft(Tail(str)) ELSE str

RECURSIVE TrimRight(_)
TrimRight(str) ==
  IF str # <<>> /\ str[Len(str)] = SPACE
  THEN TrimRight(SubSeq(str, 1, Len(str) - 1)) ELSE str

Trim(str) == TrimRight(TrimLeft(str))

\* the guard of toggleOverlay(): TRUE when the call returns early
StatusNotRunning(raw) == ReplaceFirst(raw, NUL) # Trim(OverlayThreadStatusRunning)

\* ------------------------------------------------------ the rxjs pipeline
\* a delay one second short of delay(5000)
ShortPipeDelay == DelaySeconds - 1

\* delay(5000): seconds between take(3) completing and complete() running
PipeDelay == DelaySeconds

\* take(3): TRUE when the signal just taken is the last one
TakeDone(n) == n = TakeCount

\* onWindowsReady.next(win), from a surface of session `from`: every
\* subscription still collecting takes it
DeliverNext(from) ==
  /\ count' = [s \in Sessions |->
                 IF sub[s] = "collecting" THEN count[s] + 1 ELSE count[s]]
  /\ stray' = [s \in Sessions |->
                 IF sub[s] = "collecting" /\ from # s THEN TRUE ELSE stray[s]]
  /\ sub' = [s \in Sessions |->
               IF sub[s] = "collecting" /\ TakeDone(count[s] + 1)
               THEN "settling" ELSE sub[s]]
  /\ UNCHANGED <<elapsed, curSub>>

\* ------------------------------------------------------------- createOverlay
\* the two assignments in the opposite order
SwappedFirstKeys == <<CHAT, RE>>

\* the order in which createOverlay() assigns this.windows.* before its await
FirstKeys == <<RE, CHAT>>

\* createOverlay() up to its await
CreateOverlay ==
  LET s == nSess + 1 IN
  /\ nSess < MaxSessions
  /\ nSess' = s
  /\ started' = TRUE
  /\ sub' = [sub EXCEPT ![s] = "collecting"]
  /\ curSub' = s
  /\ overlayWindow' = s
  /\ live' = live \cup {<<s, CONTAINER>>, <<s, RE>>, <<s, CHAT>>}
  /\ windows' = [windows EXCEPT ![RE] = s, ![CHAT] = s]
  /\ windowsKeys' = InsertKey(InsertKey(windowsKeys, FirstKeys[1]), FirstKeys[2])
  /\ reLoad' = [reLoad EXCEPT ![s] = "loading"]
  /\ pc' = [pc EXCEPT ![s] = "await"]
  /\ UNCHANGED <<count, stray, elapsed, chatLoad, domCount, reloads, regs, teardownLog>>

\* ------------------------------------------------------------ window geometry
\* the work areas a display may have: even widths and heights
WorkAreas ==
  [width : {2 * WorkAreaUnit * i : i \in 1..MaxWidthUnits},
   height : {2 * WorkAreaUnit * i : i \in 1..MaxHeightUnits}]

\* the display of the runs that do not vary it
DefaultWorkArea == [width |-> 2 * WorkAreaUnit * MaxWidthUnits,
                    height |-> 2 * WorkAreaUnit * MaxHeightUnits]

ContainerX == workArea.width \div 2 + 200 + OFFSCREEN_OFFSET
ContainerY == workArea.height \div 2 - 300

\* the bounds each BrowserWindow is created with
WindowBounds(k) ==
  CASE k = CONTAINER -> [x |-> ContainerX, y |-> ContainerY, width |-> 600, height |-> 600]
    [] k = RE -> [x |-> ContainerX - 600, y |-> ContainerY, width |-> 600, height |-> 300]
    [] k = CHAT -> [x |-> ContainerX, y |-> ContainerY, width |-> 300, height |-> 600]
    [] k = CP -> [x |-> ContainerX - 600, y |-> ContainerY + 300,
                  width |-> 600, height |-> 300]

\* a projection that passes the window's own x
ProjectedUnshifted(win) == WindowBounds(win[2])

\* the arguments of overlay.setPosition() for a window: getPosition() and
\* getBounds() give the bounds the window was created with
Projected(win) ==
  LET b == WindowBounds(win[2]) IN
  [x |-> b.x - OFFSCREEN_OFFSET, y |-> b.y, width |-> b.width, height |-> b.height]

\* a method other than destroy() called on a destroyed window throws
IsDestroyed(win) == win \notin live

\* createOverlay() after its await: getChatUrl() resolved
ChatUrlResolved(s) ==
  /\ inited /\ ~exited
  /\ pc[s] = "await"
  /\ chatLoad' = [chatLoad EXCEPT ![s] = "loading"]
  /\ IF IsDestroyed(<<windows[RE], RE>>) \/ IsDestroyed(<<windows[CHAT], CHAT>>)
     THEN /\ pc' = [pc EXCEPT ![s] = "failed"]
          /\ UNCHANGED winVars
     ELSE /\ pc' = [pc EXCEPT ![s] = "done"]
          /\ live' = live \cup {<<s, CP>>}
          /\ windows' = [windows EXCEPT ![CP] = s]
          /\ windowsKeys' = InsertKey(windowsKeys, CP)
          /\ UNCHANGED overlayWindow
  /\ UNCHANGED <<stateVars, envVars, nSess, aggVars, reLoad, domCount, reloads,
                 compVars, showVars, op>>

\* createOverlay() after its await: getChatUrl() rejected
ChatUrlRejected(s) ==
  /\ inited /\ ~exited
  /\ pc[s] = "await"
  /\ pc' = [pc EXCEPT ![s] = "failed"]
  /\ UNCHANGED <<stateVars, envVars, nSess, aggVars, winVars, loadVars,
                 compVars, showVars, op>>

\* ------------------------------------------------------------ destroyOverlay
\* this.onWindowsReadySubscription.unsubscribe()
Unsubscribe(st) == IF st \in {"collecting", "settling"} THEN "closed" ELSE st

\* the windows destroyOverlay() destroys
DestroyedWindows == Range(WindowValues)

\* destroyOverlay() throws a TypeError at its second statement
DestroyThrows == curSub = 0

\* the statements of destroyOverlay(), in program order
DestroySteps == <<"stop", "unsubscribe", "destroy">>

DestroyOverlay ==
  /\ started' = FALSE
  /\ regs' = <<>>
  /\ teardownLog' = IF DestroyThrows THEN SubSeq(DestroySteps, 1, 1) ELSE DestroySteps
  /\ IF DestroyThrows
     THEN UNCHANGED <<sub, count, stray, elapsed, live>>
     ELSE LET closes == Unsubscribe(sub[curSub]) = "closed" IN
          /\ sub' = [sub EXCEPT ![curSub] = Unsubscribe(@)]
          /\ count' = [count EXCEPT ![curSub] = IF closes THEN 0 ELSE @]
          /\ stray' = [stray EXCEPT ![curSub] = IF closes THEN FALSE ELSE @]
          /\ elapsed' = [elapsed EXCEPT ![curSub] = IF closes THEN 0 ELSE @]
          /\ live' = live \ DestroyedWindows
  /\ UNCHANGED <<nSess, pc, curSub, windows, windowsKeys, overlayWindow,
                 loadVars>>

\* ------------------------------------------------------- readiness events
\* recentEventsBrowserView.webContents.once('did-finish-load', ...)
RecentEventsLoaded(s) ==
  /\ inited /\ ~exited
  /\ reLoad[s] = "loading"
  /\ reLoad' = [reLoad EXCEPT ![s] = "done"]
  /\ DeliverNext(s)
  /\ UNCHANGED <<stateVars, envVars, nSess, pc, winVars, chatLoad, domCount,
                 reloads, compVars, showVars, op>>

\* chatBrowserView.webContents.once('did-finish-load', ...)
ChatLoaded(s) ==
  /\ inited /\ ~exited
  /\ chatLoad[s] = "loading"
  /\ chatLoad' = [chatLoad EXCEPT ![s] = "done"]
  /\ DeliverNext(s)
  /\ UNCHANGED <<stateVars, envVars, nSess, pc, winVars, reLoad, domCount,
                 reloads, compVars, showVars, op>>

\* a pipe that completes on the first dom-ready
ControlsSignalsOnFirst(n) == n = 1

\* fromEvent(..., 'dom-ready').pipe(take(2)): TRUE when the n-th event completes it
ControlsSignals(n) == n = DomReadyCount

\* webContents.once('dom-ready', ...): TRUE when the n-th event runs the listener
ReloadsOn(n) == n = 1

\* a dom-ready event of the control panel created by session s; its once()
\* listener reloads what this.windows.overlayControls holds at that moment
ControlsDomReady(s) ==
  /\ inited /\ ~exited
  /\ <<s, CP>> \in live
  /\ domCount[s] < MaxDomReady
  /\ domCount' = [domCount EXCEPT ![s] = @ + 1]
  /\ IF ReloadsOn(domCount[s] + 1) /\ ~IsDestroyed(<<windows[CP], CP>>)
     THEN reloads' = [reloads EXCEPT ![windows[CP]] = @ + 1]
     ELSE UNCHANGED reloads
  /\ IF ControlsSignals(domCount[s] + 1)
     THEN DeliverNext(s)
     ELSE UNCHANGED aggVars
  /\ UNCHANGED <<stateVars, envVars, nSess, pc, winVars, reLoad, chatLoad,
                 compVars, showVars, op>>

\* one second passes for every running delay(5000)
Tick ==
  /\ inited /\ ~exited
  /\ \E s \in Sessions : sub[s] = "settling" /\ elapsed[s] < PipeDelay
  /\ elapsed' = [s \in Sessions |->
                   IF sub[s] = "settling" /\ elapsed[s] < PipeDelay
                   THEN elapsed[s] + 1 ELSE elapsed[s]]
  /\ UNCHANGED <<stateVars, envVars, nSess, pc, sub, count, stray, curSub,
                 winVars, loadVars, compVars, showVars, op>>

\* the forEach of the complete callback, from the i-th window on; fail is the
\* index of the window for which addHWND returns '-1' (0: none)
RECURSIVE AddWindows(_, _, _, _)
AddWindows(i, acc, fail, s) ==
  IF i > Len(windowsKeys) THEN [regs |-> acc, end |-> "fired"]
  ELSE LET win == WindowValues[i] IN
       IF IsDestroyed(win) THEN [regs |-> acc, end |-> "typeError"]
       ELSE IF i = fail THEN [regs |-> acc, end |-> "invalidId"]
       ELSE AddWindows(i + 1,
                       Append(acc, [win |-> win, by |-> s, placed |-> TRUE,
                                    rect |-> Projected(win), alpha |-> Opaque]),
                       fail, s)

\* subscribe({ complete: ... }) runs for the subscription of session s
Complete(s, fail) ==
  LET res == AddWindows(1, regs, fail, s) IN
  /\ inited /\ ~exited
  /\ sub[s] = "settling"
  /\ elapsed[s] >= PipeDelay
  /\ fail <= Len(windowsKeys)
  /\ sub' = [sub EXCEPT ![s] = res.end]
  /\ regs' = res.regs
  /\ UNCHANGED <<stateVars, envVars, nSess, pc, count, stray, elapsed, curSub,
                 winVars, loadVars, started, teardownLog, showVars, op>>

\* ------------------------------------------------------------ the service
\* an init() that does not ask userService.isLoggedIn()
InitServiceIgnoringLogin ==
  /\ ~inited
  /\ inited' = TRUE
  /\ IF ~isEnabled
     THEN UNCHANGED <<subscribed, sessVars, compVars>>
     ELSE subscribed' = TRUE /\ CreateOverlay
  /\ UNCHANGED <<stateVars, exited, loggedIn, workArea, showVars, op>>

InitService ==
  /\ ~inited
  /\ inited' = TRUE
  /\ IF ~isEnabled
     THEN UNCHANGED <<subscribed, sessVars, compVars>>
     ELSE /\ subscribed' = TRUE
          /\ IF loggedIn THEN CreateOverlay
                         ELSE UNCHANGED <<sessVars, compVars>>
  /\ UNCHANGED <<stateVars, exited, loggedIn, workArea, showVars, op>>

\* userService.userLogin emits
UserLogin ==
  /\ inited /\ ~exited
  /\ ~loggedIn
  /\ loggedIn' = TRUE
  /\ IF subscribed THEN CreateOverlay ELSE UNCHANGED <<sessVars, compVars>>
  /\ UNCHANGED <<stateVars, inited, exited, subscribed, workArea, showVars, op>>

\* userService.userLogout emits
UserLogout ==
  /\ inited /\ ~exited
  /\ loggedIn
  /\ loggedIn' = FALSE
  /\ IF subscribed THEN DestroyOverlay ELSE UNCHANGED <<sessVars, compVars>>
  /\ UNCHANGED <<stateVars, inited, exited, subscribed, workArea, showVars, op>>

\* ipcRenderer.once('shutdownComplete', ...) and the process exit that follows
ShutdownComplete ==
  /\ inited /\ ~exited
  /\ exited' = TRUE
  /\ IF subscribed
     THEN started' = FALSE /\ regs' = <<>> /\ UNCHANGED teardownLog
     ELSE UNCHANGED compVars
  /\ UNCHANGED <<stateVars, inited, loggedIn, subscribed, workArea, sessVars, showVars, op>>

\* a setEnabled() that does not compare with state.isEnabled
SetEnabledUnguarded(shouldEnable) ==
  /\ inited /\ ~exited
  /\ IF shouldEnable THEN CreateOverlay ELSE DestroyOverlay
  /\ isEnabled' = IF ~shouldEnable /\ DestroyThrows THEN isEnabled ELSE shouldEnable
  /\ UNCHANGED <<isShowing, isPreviewEnabled, envVars, showVars>>

SetEnabled(shouldEnable) ==
  LET shouldStart == shouldEnable /\ ~isEnabled
      shouldStop == ~shouldEnable /\ isEnabled
  IN
  /\ inited /\ ~exited
  /\ IF shouldStart THEN CreateOverlay
     ELSE IF shouldStop THEN DestroyOverlay
     ELSE UNCHANGED <<sessVars, compVars>>
  /\ isEnabled' = IF shouldStop /\ DestroyThrows THEN isEnabled ELSE shouldEnable
  /\ UNCHANGED <<isShowing, isPreviewEnabled, envVars, showVars>>

\* a setPreviewEnabled() that commits SET_ENABLED instead of SET_PREVIEW_ENABLED
SetPreviewEnabledAsEnabled(shouldEnable) ==
  /\ inited /\ ~exited
  /\ isEnabled' = shouldEnable
  /\ UNCHANGED <<isPreviewEnabled, isShowing, envVars, sessVars, compVars, showVars>>

SetPreviewEnabled(shouldEnable) ==
  /\ inited /\ ~exited
  /\ isPreviewEnabled' = shouldEnable
  /\ UNCHANGED <<isEnabled, isShowing, envVars, sessVars, compVars, showVars>>

\* showOverlay(): overlay.show(); TOGGLE_OVERLAY(true)
ShowBody ==
  /\ nCalls < MaxCalls
  /\ nCalls' = nCalls + 1
  /\ visible' = "show"
  /\ isShowing' = TRUE

\* hideOverlay(): overlay.hide(); TOGGLE_OVERLAY(false)
HideBody ==
  /\ nCalls < MaxCalls
  /\ nCalls' = nCalls + 1
  /\ visible' = "hide"
  /\ isShowing' = FALSE

ShowOverlay ==
  /\ inited /\ ~exited
  /\ ShowBody
  /\ UNCHANGED <<isEnabled, isPreviewEnabled, envVars, sessVars, compVars>>

HideOverlay ==
  /\ inited /\ ~exited
  /\ HideBody
  /\ UNCHANGED <<isEnabled, isPreviewEnabled, envVars, sessVars, compVars>>

\* a toggleOverlay() with the two branches of its conditional exchanged
ToggleOverlayInverted(raw) ==
  /\ inited /\ ~exited
  /\ IF StatusNotRunning(raw)
     THEN UNCHANGED <<isShowing, showVars>>
     ELSE IF isShowing THEN ShowBody ELSE HideBody
  /\ UNCHANGED <<isEnabled, isPreviewEnabled, envVars, sessVars, compVars>>

\* toggleOverlay(); raw is what overlay.getStatus() returns
ToggleOverlay(raw) ==
  /\ inited /\ ~exited
  /\ IF StatusNotRunning(raw)
     THEN UNCHANGED <<isShowing, showVars>>
     ELSE IF isShowing THEN HideBody ELSE ShowBody
  /\ UNCHANGED <<isEnabled, isPreviewEnabled, envVars, sessVars, compVars>>

\* ------------------------------------------------------------ specification
InitMemory ==
  /\ inited = FALSE
  /\ exited = FALSE
  /\ subscribed = FALSE
  /\ nSess = 0
  /\ pc = [s \in Sessions |-> "none"]
  /\ sub = [s \in Sessions |-> "none"]
  /\ count = [s \in Sessions |-> 0]
  /\ stray = [s \in Sessions |-> FALSE]
  /\ elapsed = [s \in Sessions |-> 0]
  /\ curSub = 0
  /\ windows = [k \in Keys |-> 0]
  /\ windowsKeys = <<>>
  /\ overlayWindow = 0
  /\ live = {}
  /\ reLoad = [s \in Sessions |-> "none"]
  /\ chatLoad = [s \in Sessions |-> "none"]
  /\ domCount = [s \in Sessions |-> 0]
  /\ reloads = [s \in Sessions |-> 0]
  /\ started = FALSE
  /\ regs = <<>>
  /\ teardownLog = <<>>
  /\ visible = "none"
  /\ nCalls = 0
  /\ op = [name |-> "none", arg |-> 0, wasEnabled |-> FALSE, wasShowing |-> FALSE]

\* the persisted state may be whatever an earlier run left
Init ==
  /\ isEnabled \in BOOLEAN
  /\ isShowing \in BOOLEAN
  /\ isPreviewEnabled \in BOOLEAN
  /\ loggedIn \in BOOLEAN
  /\ workArea = DefaultWorkArea
  /\ InitMemory

\* the user's commands leave their trace in op
Log(name, arg) ==
  op' = [name |-> name, arg |-> arg, wasEnabled |-> isEnabled, wasShowing |-> isShowing]

CmdSetEnabled(b) == SetEnabled(b) /\ Log("setEnabled", b)
CmdSetPreviewEnabled(b) == SetPreviewEnabled(b) /\ Log("setPreviewEnabled", b)
CmdShowOverlay == ShowOverlay /\ Log("showOverlay", 0)
CmdHideOverlay == HideOverlay /\ Log("hideOverlay", 0)
CmdToggleOverlay(raw) == ToggleOverlay(raw) /\ Log("toggleOverlay", raw)

Next ==
  \/ InitService
  \/ UserLogin
  \/ UserLogout
  \/ ShutdownComplete
  \/ \E b \in BOOLEAN : CmdSetEnabled(b)
  \/ \E b \in BOOLEAN : CmdSetPreviewEnabled(b)
  \/ CmdShowOverlay
  \/ CmdHideOverlay
  \/ \E raw \in GetStatusValues : CmdToggleOverlay(raw)
  \/ \E s \in Sessions : ChatUrlResolved(s)
  \/ \E s \in Sessions : ChatUrlRejected(s)
  \/ \E s \in Sessions : RecentEventsLoaded(s)
  \/ \E s \in Sessions : ChatLoaded(s)
  \/ \E s \in Sessions : ControlsDomReady(s)
  \/ Tick
  \/ \E s \in Sessions : \E fail \in 0..TakeCount : Complete(s, fail)

Spec == Init /\ [][Next]_vars

\* The commands and the process exit, over runs of MaxCommandSessions sessions
CommandCap == nSess' <= MaxCommandSessions

NextCommands ==
  \/ InitService /\ CommandCap
  \/ UserLogin /\ CommandCap
  \/ UserLogout
  \/ ShutdownComplete
  \/ \E b \in BOOLEAN : CmdSetEnabled(b) /\ CommandCap
  \/ \E b \in BOOLEAN : CmdSetPreviewEnabled(b)
  \/ CmdShowOverlay
  \/ CmdHideOverlay
  \/ \E raw \in GetStatusValues : CmdToggleOverlay(raw)
  \/ \E s \in Sessions : ChatUrlResolved(s)
  \/ \E s \in Sessions : ChatUrlRejected(s)
  \/ \E s \in Sessions : RecentEventsLoaded(s)
  \/ \E s \in Sessions : ChatLoaded(s)
  \/ \E s \in Sessions : ControlsDomReady(s)
  \/ Tick
  \/ \E s \in Sessions : \E fail \in 0..TakeCount : Complete(s, fail)

SpecCommands == Init /\ [][NextCommands]_vars

\* The session lifecycle: the commands that touch only isShowing and
\* isPreviewEnabled are left out and these two flags keep their defaults
InitLifecycle ==
  /\ isEnabled \in BOOLEAN
  /\ isShowing = FALSE
  /\ isPreviewEnabled = TRUE
  /\ loggedIn \in BOOLEAN
  /\ workArea = DefaultWorkArea
  /\ InitMemory

NextLifecycle ==
  \/ InitService
  \/ UserLogin
  \/ UserLogout
  \/ ShutdownComplete
  \/ \E b \in BOOLEAN : CmdSetEnabled(b)
  \/ \E s \in Sessions : ChatUrlResolved(s)
  \/ \E s \in Sessions : ChatUrlRejected(s)
  \/ \E s \in Sessions : RecentEventsLoaded(s)
  \/ \E s \in Sessions : ChatLoaded(s)
  \/ \E s \in Sessions : ControlsDomReady(s)
  \/ Tick
  \/ \E s \in Sessions : \E fail \in 0..TakeCount : Complete(s, fail)

SpecLifecycle == InitLifecycle /\ [][NextLifecycle]_vars

\* One session on each display: the work area varies, the commands and the
\* teardown are left out
InitGeometry ==
  /\ isEnabled \in BOOLEAN
  /\ isShowing = FALSE
  /\ isPreviewEnabled = TRUE
  /\ loggedIn \in BOOLEAN
  /\ workArea \in WorkAreas
  /\ InitMemory

NextGeometry ==
  \/ InitService /\ CommandCap
  \/ UserLogin /\ CommandCap
  \/ CmdSetEnabled(TRUE) /\ CommandCap
  \/ \E s \in Sessions : ChatUrlResolved(s)
  \/ \E s \in Sessions : ChatUrlRejected(s)
  \/ \E s \in Sessions : RecentEventsLoaded(s)
  \/ \E s \in Sessions : ChatLoaded(s)
  \/ \E s \in Sessions : ControlsDomReady(s)
  \/ Tick
  \/ \E s \in Sessions : \E fail \in 0..TakeCount : Complete(s, fail)

SpecGeometry == InitGeometry /\ [][NextGeometry]_vars

\* The session lifecycle with the event loop's progress: a settled promise
\* resumes its continuation, a finished load or dom-ready is delivered, a
\* started timer runs down and its callback runs
EventFairness ==
  /\ \A s \in Sessions : WF_vars(ChatUrlResolved(s) \/ ChatUrlRejected(s))
  /\ \A s \in Sessions : WF_vars(RecentEventsLoaded(s))
  /\ \A s \in Sessions : WF_vars(ChatLoaded(s))
  /\ \A s \in Sessions : WF_vars(ControlsDomReady(s))
  /\ WF_vars(Tick)
  /\ \A s \in Sessions : WF_vars(\E fail \in 0..TakeCount : Complete(s, fail))

SpecLiveness == InitLifecycle /\ [][NextLifecycle]_vars /\ EventFairness

\* ------------------------------------------------------------------ claims
\* the registrations the complete callback of session s made, in order
RegsBy(s) == SelectSeq(regs, LAMBDA r : r.by = s)

\* the complete callback of session s has run
Ran(s) == sub[s] \in {"fired", "invalidId", "typeError"}

\* the three surfaces of session s have signaled, the control panel on its
\* second dom-ready
AllSignaled(s) ==
  /\ reLoad[s] = "done"
  /\ chatLoad[s] = "done"
  /\ domCount[s] >= 2

\* the fixed role order
RoleOrder == <<RE, CHAT, CP>>

HeldWindows == {w \in Range(WindowValues) : w \in live}

\* C3 (as claimed): once addHWND has returned '-1' in the callback of session
\* s, nothing that callback registered is still registered, no overlay window
\* is left and the session is disabled.
C3_RollbackOnInvalidId ==
  \A s \in Sessions :
    sub[s] = "invalidId" =>
      /\ RegsBy(s) = <<>>
      /\ live = {}
      /\ ~isEnabled

\* the session of this.onWindowsReadySubscription was created and registered
\* successfully: its callback registered the three windows
Active ==
  /\ curSub # 0
  /\ sub[curSub] = "fired"
  /\ Len(RegsBy(curSub)) = 3

\* C4 (as claimed): destroyOverlay() of a successfully created and registered
\* session leaves no registration and no overlay window, the container
\* included.
C4_TeardownLeavesNothing ==
  [][(Active /\ ~exited' /\ started /\ ~started') => (regs' = <<>> /\ live' = {})]_vars

\* C5 (as claimed): no role has two live registrations, and no two windows of
\* one kind (RecentEvents, Chat, ControlPanel, container) exist at once.
C5_OneRegistrationOneWindowSet ==
  /\ \A i, j \in 1..Len(regs) : i # j => regs[i].win[2] # regs[j].win[2]
  /\ \A v, w \in live : v[2] = w[2] => v = w

\* C6 (as claimed): a window is registered only while the overlay is enabled,
\* the user is logged in and the current session is Active.
C6_RegistrationsOnlyWhileActive ==
  regs # <<>> => (isEnabled /\ loggedIn /\ Active)

\* C7: the registrations one callback makes are, in order, a prefix of
\* RecentEvents, Chat, ControlPanel.
C7_FixedRegistrationOrder ==
  \A s \in Sessions :
    /\ Len(RegsBy(s)) <= 3
    /\ \A i \in 1..Len(RegsBy(s)) : RegsBy(s)[i].win[2] = RoleOrder[i]

\* C7 witness: the second session of the process registered its three windows
C7_Witness ==
  /\ Len(RegsBy(2)) = 3
  /\ \A i \in 1..3 : RegsBy(2)[i].win = <<2, RoleOrder[i]>>

\* C8 (as claimed): no window of a session whose subscription destroyOverlay()
\* closed before its callback ran (a session torn down while it was created,
\* waiting or settling) is registered.
C8_NoRegistrationAfterTeardown ==
  \A i \in 1..Len(regs) : sub[regs[i].win[1]] # "closed"

\* C9: setEnabled(b) while isEnabled already equals b creates nothing,
\* destroys nothing and leaves the whole state as it was (so the second of
\* two setEnabled(true) calls in a row performs no createOverlay), and
\* setEnabled(true) while disabled performs exactly one createOverlay.
C9_SetEnabledIdempotent ==
  [][\A b \in BOOLEAN :
       /\ (CmdSetEnabled(b) /\ isEnabled = b) =>
            UNCHANGED <<stateVars, envVars, sessVars, compVars, showVars>>
       /\ (CmdSetEnabled(b) /\ b /\ ~isEnabled) => nSess' = nSess + 1
    ]_vars

\* C9 witness: init() found the overlay disabled, so only setEnabled() creates
\* sessions; the last command was setEnabled(true) on an enabled overlay, and
\* one createOverlay() has been performed in all
C9_Witness ==
  /\ inited /\ ~subscribed
  /\ op.name = "setEnabled" /\ op.arg = TRUE /\ op.wasEnabled = TRUE
  /\ isEnabled
  /\ nSess = 1

\* the status reports that are Running once one terminator byte is removed
RunningReports == {<<"running">>, <<"running", NUL>>, <<NUL, "running">>}

\* C10: toggleOverlay() on a status report that, one terminator byte removed,
\* is anything other than Running leaves isShowing unchanged and calls neither
\* overlay.show() nor overlay.hide().
C10_ToggleNoOpUnlessRunning ==
  [][\A raw \in GetStatusValues :
       (CmdToggleOverlay(raw) /\ raw \notin RunningReports) =>
          UNCHANGED <<isShowing, visible, nCalls>>
    ]_vars

\* C10 witness: the thread runs, the report carried two terminator bytes, and
\* the toggle changed nothing
C10_Witness ==
  /\ op.name = "toggleOverlay"
  /\ op.arg = <<"running", NUL, NUL>>
  /\ started
  /\ isShowing = op.wasShowing
  /\ nCalls = 0

\* C11 (as claimed): showOverlay() and hideOverlay() called while the session
\* is not Active call neither overlay.show() nor overlay.hide() and leave
\* isShowing unchanged.
C11_ShowHideOnlyWhenActive ==
  [][((CmdShowOverlay \/ CmdHideOverlay) /\ ~Active) =>
       UNCHANGED <<isShowing, visible, nCalls>>
    ]_vars

\* C12 (as claimed): while the overlay is enabled, a logout tears the session
\* down (the compositor is stopped and no window of this.windows is left) and
\* a login creates a session, however the enabled state was reached.
C12_LoginLogoutDriveSession ==
  [][/\ (isEnabled /\ loggedIn /\ ~loggedIn') => (~started' /\ HeldWindows' = {})
     /\ (isEnabled /\ ~loggedIn /\ loggedIn') => nSess' = nSess + 1
    ]_vars

\* C13 (as claimed): when the compositor was started by createOverlay(), the
\* shutdown notification stops it.
C13_ShutdownStopsCompositor ==
  [][(started /\ ~exited /\ exited') => ~started']_vars

\* C14 (as claimed): in destroyOverlay() the stop of the compositor thread
\* comes after every unregistration and every window destruction: no other
\* teardown step follows it.
C14_StopIsLastTeardownStep ==
  \A i \in 1..Len(teardownLog) :
    teardownLog[i] = "stop" =>
      \A j \in 1..Len(teardownLog) :
        teardownLog[j] \in {"unregister", "destroy"} => j < i

\* C15 (as claimed): right after a callback has registered all three
\* surfaces, isShowing is false, whatever happened before.
C15_ActivationStartsHidden ==
  [][\A s \in Sessions :
       (sub[s] = "settling" /\ sub'[s] = "fired" /\ Len(RegsBy(s)') = 3) =>
          ~isShowing'
    ]_vars

\* C16 (as claimed): setPosition and setTransparency(255) are issued for a
\* registration only once all registrations of its callback have succeeded,
\* once each, with full opacity, and never for an invalid id.
C16_PlacementAfterAllRegistered ==
  \A i \in 1..Len(regs) :
    /\ regs[i].placed => sub[regs[i].by] = "fired"
    /\ regs[i].placed => regs[i].alpha = 255

\* C17 (as claimed): when setEnabled(b) returns, state.isEnabled equals b.
C17_SetEnabledPersistsArgument ==
  [][\A b \in BOOLEAN : CmdSetEnabled(b) => isEnabled' = b]_vars

\* C18 (as claimed): when createOverlay() has failed at or after its await,
\* no window created by that call is left and none is registered.
C18_FailedCreationRolledBack ==
  \A s \in Sessions :
    pc[s] = "failed" =>
      /\ \A k \in Keys \cup {CONTAINER} : <<s, k>> \notin live
      /\ \A i \in 1..Len(regs) : regs[i].win[1] # s

\* C19: setPreviewEnabled(b) sets isPreviewEnabled to b and changes nothing
\* else: isEnabled, isShowing, the windows, the readiness progress and the
\* compositor (started, registrations, show/hide calls) stay as they were.
C19_SetPreviewEnabledFrame ==
  [][\A b \in BOOLEAN :
       CmdSetPreviewEnabled(b) =>
         /\ isPreviewEnabled' = b
         /\ UNCHANGED <<isEnabled, isShowing, envVars, sessVars, compVars, showVars>>
    ]_vars

\* C19 witness: the preview was switched off while the session was enabled,
\* started and registered
C19_Witness ==
  /\ op.name = "setPreviewEnabled" /\ op.arg = FALSE
  /\ ~isPreviewEnabled
  /\ isEnabled /\ started /\ Len(regs) = 3

\* C20: toggleOverlay() on a status report that is Running (one terminator
\* byte removed) makes exactly one compositor call, hide if isShowing was true
\* and show if it was false, and flips isShowing; the second of two such
\* toggles in a row restores the isShowing the first one found.
C20_ToggleFlipsWhenRunning ==
  [][\A raw \in GetStatusValues :
       (CmdToggleOverlay(raw) /\ raw \in RunningReports) =>
         /\ nCalls' = nCalls + 1
         /\ visible' = IF isShowing THEN "hide" ELSE "show"
         /\ isShowing' = ~isShowing
         /\ (op.name = "toggleOverlay" /\ op.arg \in RunningReports) =>
              isShowing' = op.wasShowing
    ]_vars

\* C20 witness: two toggles were made, the last one on a Running report with
\* one terminator byte; it hid the overlay the first one had shown
C20_Witness ==
  /\ op.name = "toggleOverlay" /\ op.arg = <<"running", NUL>>
  /\ op.wasShowing /\ ~isShowing
  /\ visible = "hide"
  /\ nCalls = 2

\* C21: init() calls createOverlay() exactly once when the persisted isEnabled
\* is true and the user is logged in (the compositor is started and the
\* session's first windows exist), and not at all otherwise (no window, the
\* compositor not started).
C21_InitCreatesIffEnabledAndLoggedIn ==
  [][(~inited /\ inited') =>
       IF isEnabled /\ loggedIn
       THEN /\ nSess' = 1
            /\ started'
            /\ live' = {<<1, CONTAINER>>, <<1, RE>>, <<1, CHAT>>}
            /\ sub'[1] = "collecting"
       ELSE /\ nSess' = 0
            /\ ~started'
            /\ live' = {}
    ]_vars

\* C21 witness: init() has created the session of a persisted enabled state
\* and no command has been given since
C21_Witness ==
  /\ inited /\ subscribed /\ loggedIn /\ isEnabled
  /\ op.name = "none"
  /\ nSess = 1 /\ started
  /\ pc[1] = "await" /\ sub[1] = "collecting"

\* the readiness signals the surfaces created by session s have emitted
OwnSignals(s) ==
  (IF reLoad[s] = "done" THEN 1 ELSE 0)
  + (IF chatLoad[s] = "done" THEN 1 ELSE 0)
  + (IF domCount[s] >= 2 THEN 1 ELSE 0)

\* C23 (as claimed): the take(3) of a session counts only the signals of that
\* session's own three surfaces: it has never taken more signals than its
\* own surfaces have emitted, and none of another session's surface.
C23_SignalsCountedPerSession ==
  \A s \in Sessions :
    /\ count[s] <= OwnSignals(s)
    /\ ~stray[s]

\* the callback of session s has registered and placed the session's own
\* three windows
OwnThreeRegistered(s) ==
  /\ sub[s] = "fired"
  /\ Len(RegsBy(s)) = 3
  /\ \A i \in 1..3 :
       /\ RegsBy(s)[i].win = <<s, RoleOrder[i]>>
       /\ RegsBy(s)[i].placed /\ RegsBy(s)[i].alpha = 255

\* one of the claim's conditions on session s does not hold: the chat-URL
\* lookup failed, a registration failed, or a disable, logout or exit came
Excused(s) ==
  \/ pc[s] = "failed"
  \/ sub[s] \in {"closed", "invalidId", "typeError"}
  \/ ~isEnabled \/ ~loggedIn \/ exited

\* C22 (as claimed): a created session whose chat-URL lookup resolves, whose
\* surfaces all signal, whose registrations do not fail and which no
\* disable, logout or exit interrupts eventually has its three windows
\* registered and placed.
C22_CreatedSessionBecomesActive ==
  \A s \in Sessions :
    (sub[s] = "collecting" /\ pc[s] = "await") ~> (OwnThreeRegistered(s) \/ Excused(s))

\* the windows created by the createOverlay() call of session s that exist
WindowsOf(s) == {w \in live : w[1] = s}

\* C24 (as claimed): when createOverlay() resumes from its await after
\* destroyOverlay() has closed its subscription, it creates no window and no
\* window of its session exists afterwards.
C24_ResumeAfterTeardownLeavesNothing ==
  [][\A s \in Sessions :
       (sub[s] = "closed" /\ pc[s] = "await" /\ pc'[s] # "await") =>
          /\ WindowsOf(s)' \subseteq WindowsOf(s)
          /\ WindowsOf(s)' = {}
    ]_vars

\* C25 (as claimed): the control panel of a session is reloaded exactly
\* once, on its first dom-ready, so never more than once and never before
\* or without it.
C25_ControlPanelReloadedOnce ==
  \A s \in Sessions : reloads[s] = IF domCount[s] >= 1 THEN 1 ELSE 0

\* two rectangles share a point
Overlap(a, b) ==
  /\ a.x < b.x + b.width /\ b.x < a.x + a.width
  /\ a.y < b.y + b.height /\ b.y < a.y + a.height

\* C26: on a display whose work area is W x H (even), every registered
\* window was created 5000 to the right of where it is projected; Chat is
\* projected at (W/2 + 200, H/2 - 300) with size 300 x 600, RecentEvents at
\* (W/2 - 400, H/2 - 300) with size 600 x 300, the control panel at
\* (W/2 - 400, H/2) with size 600 x 300, and no two projections overlap.
C26_OffsetCancelsAndNoOverlap ==
  LET W == workArea.width
      H == workArea.height
  IN
  \A i \in 1..Len(regs) :
    LET r == regs[i].rect
        k == regs[i].win[2]
    IN
    /\ WindowBounds(k).x = r.x + 5000
    /\ k = CHAT => r = [x |-> W \div 2 + 200, y |-> H \div 2 - 300,
                        width |-> 300, height |-> 600]
    /\ k = RE => r = [x |-> W \div 2 - 400, y |-> H \div 2 - 300,
                      width |-> 600, height |-> 300]
    /\ k = CP => r = [x |-> W \div 2 - 400, y |-> H \div 2,
                      width |-> 600, height |-> 300]
    /\ \A j \in 1..Len(regs) : j # i => ~Overlap(r, regs[j].rect)

\* C26 witness: the three windows are registered on the smallest display,
\* where the projections of RecentEvents and the control panel start left of
\* the work area
C26_Witness ==
  /\ Len(regs) = 3
  /\ workArea.width = 2 * WorkAreaUnit /\ workArea.height = 2 * WorkAreaUnit
  /\ regs[1].rect.x < 0

====
